---- MODULE Spec2Model ----
\* SGD-to-MYR monitor (src/App.tsx): the polling effect, fetchRate, the alert
\* decision and the threshold / interval / sound handlers of the App component.
\*
\* Modelling conventions
\*   - A text is a sequence of one-character strings, <<"3", ".", "2", "0">>.
\*   - A JavaScript number is a record [k, v]: k = "num" with v the value in
\*     ten-thousandths (Scale), k = "inf" with v = 1 or -1, or k = "nan".
\*   - A JavaScript value (the rate state, the MYR field of a response) is a
\*     record [t, n, s]: t in {"null", "undefined", "number", "string"}.
\*   - One handler, together with the re-render and the effects React runs
\*     because of it, is one action.
EXTENDS Integers, Sequences, FiniteSets, Bags, TLC

VARIABLES
    pc,                 \* "constructed" | "mounted" | "unmounted"
    rate,               \* useState<number | null>(null)          (line 121)
    lastChecked,        \* useState<Date | null>(null)            (line 122)
    error,              \* useState<string | null>(null)          (line 123)
    isLoading,          \* useState<boolean>(true)                (line 124)
    threshold,          \* useState<number>(3.20)                 (line 128)
    inputThreshold,     \* useState<string>('3.20')               (line 129)
    thresholdError,     \* useState<string | null>(null)          (line 130)
    checkInterval,      \* useState<number>(10)                   (line 132)
    inputCheckInterval, \* useState<string>('10')                 (line 133)
    intervalError,      \* useState<string | null>(null)          (line 134)
    notificationSound,  \* useState<string>('')                   (line 136)
    timers,             \* the intervals armed by setInterval and not cleared
    inflight,           \* bag of fetchRate calls awaiting their response
    effects             \* history: notifications / playbacks issued by the last step

vars == <<pc, rate, lastChecked, error, isLoading, threshold, inputThreshold,
          thresholdError, checkInterval, inputCheckInterval, intervalError,
          notificationSound, timers, inflight, effects>>

reactState == <<rate, lastChecked, error, isLoading>>
formState == <<inputThreshold, thresholdError, inputCheckInterval, intervalError>>
config == <<threshold, checkInterval, notificationSound>>

----------------------------------------------------------------------------
\* Bounds of the model

\* At most this many fetchRate calls are awaiting a response at once.
MaxInFlight == 2

----------------------------------------------------------------------------
\* JavaScript numbers

\* Numbers are kept to the four decimals of newRate.toFixed(4) (line 171).
FixedDigits == 4
Scale == 10 ^ FixedDigits

Num(v) == [k |-> "num", v |-> v]
NaN == [k |-> "nan", v |-> 0]
Infinity == [k |-> "inf", v |-> 1]
NegInfinity == [k |-> "inf", v |-> -1]

isNaN(x) == x.k = "nan"

\* x > y on numbers: false as soon as one side is NaN.
NumGt(x, y) ==
    CASE x.k = "nan" \/ y.k = "nan" -> FALSE
      [] x.k = "inf" /\ y.k = "inf" -> x.v > y.v
      [] x.k = "inf" -> x.v > 0
      [] y.k = "inf" -> y.v < 0
      [] OTHER -> x.v > y.v

Zero == Num(0)

----------------------------------------------------------------------------
\* Texts

Digits == {"0", "1", "2", "3", "4", "5", "6", "7", "8", "9"}

DigitVal(c) ==
    CASE c = "0" -> 0 [] c = "1" -> 1 [] c = "2" -> 2 [] c = "3" -> 3
      [] c = "4" -> 4 [] c = "5" -> 5 [] c = "6" -> 6 [] c = "7" -> 7
      [] c = "8" -> 8 [] c = "9" -> 9

DigitChar(d) == <<"0", "1", "2", "3", "4", "5", "6", "7", "8", "9">>[d + 1]

InfinityText == <<"I", "n", "f", "i", "n", "i", "t", "y">>

\* The first index >= i of s that holds no white space (Len(s) + 1 if none).
RECURSIVE SkipSpace(_, _)
SkipSpace(s, i) ==
    IF i <= Len(s) /\ s[i] = " " THEN SkipSpace(s, i + 1) ELSE i

\* The first index >= i of s that holds no digit (Len(s) + 1 if none).
RECURSIVE SkipDigits(_, _)
SkipDigits(s, i) ==
    IF i <= Len(s) /\ s[i] \in Digits THEN SkipDigits(s, i + 1) ELSE i

\* The integer written by the digits s[i .. j-1] (0 when there are none).
RECURSIVE IntOf(_, _, _)
IntOf(s, i, j) ==
    IF j <= i THEN 0 ELSE IntOf(s, i, j - 1) * 10 + DigitVal(s[j - 1])

\* The fraction written by the digits s[i .. j-1] after a decimal point, in
\* units of 1/Scale; w is the weight of the digit at i (Scale \div 10 first).
RECURSIVE FracOf(_, _, _, _)
FracOf(s, i, j, w) ==
    IF i >= j \/ w = 0 THEN 0
    ELSE DigitVal(s[i]) * w + FracOf(s, i + 1, j, w \div 10)

StartsWith(s, i, p) ==
    /\ i + Len(p) - 1 <= Len(s)
    /\ \A k \in 1..Len(p) : s[i + k - 1] = p[k]

\* The scan both parseFloat and Number() make: leading white space, a sign,
\* then "Infinity" or digits [. digits]. The result is the number read and
\* the index after the last character used (end = 0: nothing numeric read).
ScanNumber(s) ==
    LET i0 == SkipSpace(s, 1)
        signed == i0 <= Len(s) /\ s[i0] \in {"+", "-"}
        sign == IF signed /\ s[i0] = "-" THEN -1 ELSE 1
        i1 == IF signed THEN i0 + 1 ELSE i0
        a == SkipDigits(s, i1)
        dot == a <= Len(s) /\ s[a] = "."
        b == IF dot THEN SkipDigits(s, a + 1) ELSE a
        nInt == a - i1
        nFrac == IF dot THEN b - (a + 1) ELSE 0
    IN  IF StartsWith(s, i1, InfinityText)
        THEN [val |-> [k |-> "inf", v |-> sign], end |-> i1 + Len(InfinityText)]
        ELSE IF nInt = 0 /\ nFrac = 0
        THEN [val |-> NaN, end |-> 0]
        ELSE [val |-> Num(sign * (IntOf(s, i1, a) * Scale
                                  + FracOf(s, a + 1, b, Scale \div 10))),
              end |-> IF dot /\ (nFrac > 0 \/ nInt > 0) THEN b ELSE a]

\* parseFloat(text): the longest numeric prefix, NaN when there is none.
parseFloat(s) == ScanNumber(s).val

\* parseInt(text, 10): white space, a sign, then the leading decimal digits;
\* NaN when there is no digit. Whatever follows the digits is ignored.
parseInt(s) ==
    LET i0 == SkipSpace(s, 1)
        signed == i0 <= Len(s) /\ s[i0] \in {"+", "-"}
        sign == IF signed /\ s[i0] = "-" THEN -1 ELSE 1
        i1 == IF signed THEN i0 + 1 ELSE i0
        a == SkipDigits(s, i1)
    IN  IF a = i1 THEN NaN ELSE Num(sign * IntOf(s, i1, a) * Scale)

\* Number(text), the conversion the > operator applies to a string operand:
\* the whole text must be a numeric literal (the empty text is 0).
StringToNumber(s) ==
    LET r == ScanNumber(s)
    IN  IF SkipSpace(s, 1) > Len(s) THEN Zero
        ELSE IF r.end # 0 /\ SkipSpace(s, r.end) > Len(s) THEN r.val
        ELSE NaN

\* The decimal digits of the natural number n.
RECURSIVE NatText(_)
NatText(n) ==
    IF n < 10 THEN <<DigitChar(n)>>
    ELSE NatText(n \div 10) \o <<DigitChar(n % 10)>>

\* The digits of the fraction f / w10 (f < w10, w10 a power of ten) without
\* trailing zeros.
RECURSIVE FracText(_, _)
FracText(f, w10) ==
    IF f = 0 THEN <<>>
    ELSE <<DigitChar(f \div (w10 \div 10))>> \o FracText(f % (w10 \div 10), w10 \div 10)

\* Number.prototype.toString()
NumberToString(x) ==
    CASE x.k = "nan" -> <<"N", "a", "N">>
      [] x.k = "inf" -> (IF x.v < 0 THEN <<"-">> ELSE <<>>) \o InfinityText
      [] OTHER ->
            LET m == IF x.v < 0 THEN -x.v ELSE x.v
                whole == NatText(m \div Scale)
                frac == FracText(m % Scale, Scale)
            IN  (IF x.v < 0 THEN <<"-">> ELSE <<>>) \o whole
                \o (IF frac = <<>> THEN <<>> ELSE <<".">> \o frac)

----------------------------------------------------------------------------
\* JavaScript values and nullable state

JSNull == [t |-> "null", n |-> Zero, s |-> <<>>]
JSUndefined == [t |-> "undefined", n |-> Zero, s |-> <<>>]
JSNumber(x) == [t |-> "number", n |-> x, s |-> <<>>]
JSString(txt) == [t |-> "string", n |-> Zero, s |-> txt]

\* ToNumber, the conversion the relational operators apply to an operand.
ToNumber(x) ==
    CASE x.t = "number" -> x.n
      [] x.t = "string" -> StringToNumber(x.s)
      [] x.t = "null" -> Zero
      [] OTHER -> NaN

\* A nullable state is the empty sequence (null) or a one-element sequence.
None == <<>>
Some(x) == <<x>>

\* Truthiness of a string | null state: null and '' are falsy.
Truthy(m) == m # None /\ m[1] # <<>>

----------------------------------------------------------------------------
\* Constants of the program

ChimeUrl == "https://soundbible.com/grab.php?id=1954&type=mp3"
AlertUrl == "https://soundbible.com/grab.php?id=1793&type=mp3"
BeepUrl == "https://soundbible.com/grab.php?id=1211&type=mp3"

SOUNDS == [Default |-> "", Chime |-> ChimeUrl, Alert |-> AlertUrl, Beep |-> BeepUrl]

InitialThreshold == Num(32000)
InitialThresholdText == <<"3", ".", "2", "0">>
InitialCheckInterval == Num(10 * Scale)
InitialCheckIntervalText == <<"1", "0">>

ThresholdErrorMessage == <<"Please enter a valid positive number.">>
IntervalErrorMessage == <<"Please enter a valid positive number (minutes).">>

\* checkInterval * 60 * 1000, for the whole numbers parseInt yields.
IntervalMs(ci) == (ci.v \div Scale) * 60 * 1000

----------------------------------------------------------------------------
\* StatusIndicator: the status shown for (isLoading, error)

StatusText(loading, err) ==
    IF loading THEN "Checking..."
    ELSE IF Truthy(err) THEN "Error"
    ELSE "Monitoring"

status == StatusText(isLoading, error)

----------------------------------------------------------------------------
\* Inputs of the environment

\* Texts the user types into the threshold and the interval fields (the
\* fields start with '3.20' and '10'): a new valid value and a text the
\* handlers reject. Interval values are multiples of the time step.
ThresholdTexts == {<<"3", ".", "3">>, <<"a", "b", "c">>}
IntervalTexts == {<<"5">>, <<"0">>}

\* Texts typed into either field when the validation of the forms is examined.
ValidationTexts ==
    {<<"3", ".", "2", "0">>, <<"1", "0">>, <<"0">>, <<"-", "1">>, <<"a", "b", "c">>,
     <<"3", ".", "5">>, <<"3", ".", "2", "a", "b", "c">>, InfinityText}

\* The options of the sound <select> picked when the selection of the sound
\* is examined.
SoundOptions == {SOUNDS.Default, SOUNDS.Chime, SOUNDS.Alert, SOUNDS.Beep}

\* The option of the sound <select> the user picks in place of the initial
\* 'Default' (no sound).
SoundChoices == {SOUNDS.Chime}

\* Notification.permission, read from the browser when a check settles.
Permissions == {"default", "granted", "denied"}

\* What new Date() reads when a check settles.
Dates == {1}

\* What answers fetch(API_URL): the request is rejected, or it resolves to a
\* response with the ok flag, the status line and the body. A body parses as
\* JSON or not; parsed, it has a rates object or not, and the rates object
\* holds MYR (a number, a string) or not (MYR reads as undefined).
Body(parses, hasRates, myr) == [parses |-> parses, hasRates |-> hasRates, MYR |-> myr]
Resolved(ok, code, text, body) ==
    [net |-> "resolved", ok |-> ok, status |-> code, statusText |-> text, body |-> body]

NetworkFailure ==
    [net |-> "rejected", ok |-> FALSE, status |-> 0, statusText |-> "",
     body |-> Body(FALSE, FALSE, JSUndefined)]
Http500 == Resolved(FALSE, 500, "Internal Server Error", Body(FALSE, FALSE, JSUndefined))
InvalidJson == Resolved(TRUE, 200, "OK", Body(FALSE, FALSE, JSUndefined))
NoRates == Resolved(TRUE, 200, "OK", Body(TRUE, FALSE, JSUndefined))
NoMYR == Resolved(TRUE, 200, "OK", Body(TRUE, TRUE, JSUndefined))
RateBody(x) == Resolved(TRUE, 200, "OK", Body(TRUE, TRUE, x))

\* Rates around the thresholds 3.2 and 3.3: 3.2 and 3.25.
RateValues == {JSNumber(Num(32000)), JSNumber(Num(32500))}
NonNumericRates == {JSString(<<"3", ".", "2", "5">>)}

WellFormed == {RateBody(x) : x \in RateValues}
Malformed == {InvalidJson, NoRates, NoMYR} \cup {RateBody(x) : x \in NonNumericRates}
Responses == {NetworkFailure, Http500} \cup Malformed \cup WellFormed

----------------------------------------------------------------------------
\* fetchRate (lines 155-189)

\* The values fetchRate closes over: useCallback deps [threshold, notificationSound].
Closure(thr, snd) == [thr |-> thr, snd |-> snd]

\* newRate >= threshold in place of newRate > threshold.
AtOrAboveThreshold(newRate, thr) ==
    NumGt(ToNumber(newRate), thr) \/ ToNumber(newRate) = thr

\* newRate > threshold, the left operand of && (line 169)
AboveThreshold(newRate, thr) == NumGt(ToNumber(newRate), thr)

\* newRate > threshold && Notification.permission === 'granted' (line 169):
\* the permission is read only when the left operand holds.
ShouldAlert(newRate, thr, perm) ==
    AboveThreshold(newRate, thr) /\ perm = "granted"

\* Number.prototype.toFixed(4) of a finite number >= 0.
toFixed4(x) ==
    LET f == x.v % Scale
    IN  NatText(x.v \div Scale) \o <<".">>
        \o <<DigitChar(f \div 1000), DigitChar((f \div 100) % 10),
             DigitChar((f \div 10) % 10), DigitChar(f % 10)>>

NoEffect == [e |-> "none", url |-> "", ok |-> TRUE, silent |-> FALSE,
             rateText |-> <<>>, thresholdText |-> <<>>]

\* new Audio(notificationSound).play(), which settles well or not (line 175-176)
PlayEffect(url, ok) == [NoEffect EXCEPT !.e = "play", !.url = url, !.ok = ok]

\* new Notification('SGD to MYR Rate Alert!', notificationOptions) (line 180),
\* its body built from newRate.toFixed(4) and `${threshold}` (line 171).
NotifyEffect(newRate, thr, silent) ==
    [NoEffect EXCEPT !.e = "notify", !.silent = silent,
                     !.rateText = toFixed4(newRate.n),
                     !.thresholdText = NumberToString(thr)]

\* The alert branch with the playback awaited: a playback that fails leaves
\* the branch before the notification is made.
AlertAfterPlayback(newRate, cl, playOk) ==
    IF cl.snd # "" /\ ~playOk
    THEN <<PlayEffect(cl.snd, playOk)>>
    ELSE (IF cl.snd # "" THEN <<PlayEffect(cl.snd, playOk)>> ELSE <<>>)
         \o <<NotifyEffect(newRate, cl.thr, cl.snd # "")>>

\* The alert branch (lines 170-180) for a numeric newRate.
AlertEffects(newRate, cl, playOk) ==
    (IF cl.snd # "" THEN <<PlayEffect(cl.snd, playOk)>> ELSE <<>>)
    \o <<NotifyEffect(newRate, cl.thr, cl.snd # "")>>

Thrown(msg, stored, newRate) ==
    [thrown |-> Some(msg), stored |-> stored, newRate |-> newRate, effects |-> <<>>]
Returned(newRate, eff) ==
    [thrown |-> None, stored |-> TRUE, newRate |-> newRate, effects |-> eff]

\* The try block (lines 159-181) on response resp: whether it throws and
\* with which message, whether setRate / setLastChecked were reached and with
\* which value, and what it issued.
Outcome(cl, resp, perm, playOk) ==
    IF resp.net = "rejected"
    THEN Thrown(<<"Failed to fetch">>, FALSE, JSUndefined)
    ELSE IF ~resp.ok
    THEN Thrown(<<"API error: ", resp.statusText, " (", ToString(resp.status), ")">>,
                FALSE, JSUndefined)
    ELSE IF ~resp.body.parses
    THEN Thrown(<<"Unexpected token < in JSON at position 0">>, FALSE, JSUndefined)
    ELSE IF ~resp.body.hasRates
    THEN Thrown(<<"Cannot read properties of undefined (reading 'MYR')">>,
                FALSE, JSUndefined)
    ELSE LET newRate == resp.body.MYR
         IN  IF ~ShouldAlert(newRate, cl.thr, perm)
             THEN Returned(newRate, <<>>)
             ELSE IF newRate.t # "number"
             THEN Thrown(<<"newRate.toFixed is not a function">>, TRUE, newRate)
             ELSE Returned(newRate, AlertEffects(newRate, cl, playOk))

\* setIsLoading(false) placed after the alert branch, inside try, instead of
\* in finally: a call that throws leaves the flag as it is.
LoadingClearedInTry(o, loading) == IF o.thrown # None THEN loading ELSE FALSE

\* finally { setIsLoading(false) } (lines 186-188)
LoadingAfterSettle(o, loading) == FALSE

\* catch: setError(errorMessage) (lines 182-185)
ErrorAfterSettle(o, err) == IF o.thrown # None THEN o.thrown ELSE err

\* setRate(newRate); setLastChecked(new Date()) (lines 166-167)
RateAfterSettle(o, old) == IF o.stored THEN o.newRate ELSE old
LastCheckedAfterSettle(o, old, d) == IF o.stored THEN Some(d) ELSE old

\* Which inputs a settling call reads.
Stores(resp) == resp.net = "resolved" /\ resp.ok /\ resp.body.parses /\ resp.body.hasRates
ReadsPermission(cl, resp) ==
    Stores(resp) /\ AboveThreshold(resp.body.MYR, cl.thr)
Plays(cl, resp, perm) ==
    /\ Stores(resp)
    /\ ShouldAlert(resp.body.MYR, cl.thr, perm)
    /\ resp.body.MYR.t = "number"
    /\ cl.snd # ""


InFlight == BagCardinality(inflight)

\* fetchRate up to its first await: setIsLoading(true); setError(null);
\* fetch(API_URL) (lines 156-159). Only a mounted component calls it.
FetchRateCall(cl) ==
    /\ InFlight < MaxInFlight
    /\ inflight' = inflight (+) SetToBag({cl})
    /\ isLoading' = TRUE
    /\ error' = None
    /\ UNCHANGED <<rate, lastChecked>>

\* The rest of fetchRate, run when the response of one pending call arrives
\* (lines 159-188). State setters of an unmounted component do nothing.
FetchRateSettle(cl, resp, perm, playOk, d) ==
    /\ BagIn(cl, inflight)
    /\ LET o == Outcome(cl, resp, perm, playOk)
       IN  /\ inflight' = inflight (-) SetToBag({cl})
           /\ IF pc = "mounted"
              THEN /\ rate' = RateAfterSettle(o, rate)
                   /\ lastChecked' = LastCheckedAfterSettle(o, lastChecked, d)
                   /\ error' = ErrorAfterSettle(o, error)
                   /\ isLoading' = LoadingAfterSettle(o, isLoading)
              ELSE UNCHANGED reactState
           /\ effects' = o.effects
    /\ UNCHANGED <<pc, config, formState, timers>>

----------------------------------------------------------------------------
\* The polling effect (lines 191-197)

Timer(cl, ms) == [cl |-> cl, delay |-> ms, left |-> ms]

\* setInterval(fetchRate, intervalMs)
setInterval(ts, cl, ms) == Append(ts, Timer(cl, ms))

\* A cleanup that cancels nothing.
CleanupCancelsNothing(ts) == ts

\* The cleanup of the effect: clearInterval(intervalId), intervalId being the
\* interval this run of the effect armed, the last one armed.
clearInterval(ts) == IF ts = <<>> THEN ts ELSE SubSeq(ts, 1, Len(ts) - 1)

\* One run of the effect under the configuration (thr, ci, snd).
RunPollingEffect(ts, thr, ci, snd) ==
    /\ FetchRateCall(Closure(thr, snd))
    /\ timers' = setInterval(ts, Closure(thr, snd), IntervalMs(ci))

\* The effect with fetchRate depending on the threshold alone: a change of
\* the sound leaves the effect alone.
AfterRenderWithoutSoundDep(thr, ci, snd) ==
    IF <<thr, ci>> # <<threshold, checkInterval>>
    THEN RunPollingEffect(clearInterval(timers), thr, ci, snd)
    ELSE UNCHANGED <<reactState, timers, inflight>>

\* A render after which fetchRate or checkInterval differs from the render
\* before: React runs the cleanup of the last run, then the effect again.
\* With both unchanged the effect is left alone.
AfterRender(thr, ci, snd) ==
    IF <<thr, ci, snd>> # <<threshold, checkInterval, notificationSound>>
    THEN RunPollingEffect(clearInterval(timers), thr, ci, snd)
    ELSE UNCHANGED <<reactState, timers, inflight>>

\* The first render: the effect runs for the first time.
Mount ==
    /\ pc = "constructed"
    /\ pc' = "mounted"
    /\ RunPollingEffect(timers, threshold, checkInterval, notificationSound)
    /\ effects' = <<>>
    /\ UNCHANGED <<config, formState>>

\* The component is removed and the effect has no cleanup.
UnmountWithoutCleanup ==
    /\ pc = "mounted"
    /\ pc' = "unmounted"
    /\ effects' = <<>>
    /\ UNCHANGED <<reactState, config, formState, inflight, timers>>

\* The component is removed: the cleanup of the effect runs.
Unmount ==
    /\ pc = "mounted"
    /\ pc' = "unmounted"
    /\ timers' = clearInterval(timers)
    /\ effects' = <<>>
    /\ UNCHANGED <<reactState, config, formState, inflight>>

\* Time passes by one step, five minutes, while no armed interval is due.
StepMs == 5 * 60 * 1000

AdvanceTime ==
    /\ timers # <<>>
    /\ \A i \in 1..Len(timers) : timers[i].left > 0
    /\ timers' = [i \in 1..Len(timers) |->
                    [timers[i] EXCEPT !.left = IF @ > StepMs THEN @ - StepMs ELSE 0]]
    /\ effects' = <<>>
    /\ UNCHANGED <<pc, reactState, config, formState, inflight>>

\* An armed interval is due: its callback, the fetchRate it was armed with,
\* runs, and the interval is due again one delay later.
TimerTick(i) ==
    /\ i \in 1..Len(timers)
    /\ timers[i].left = 0
    /\ FetchRateCall(timers[i].cl)
    /\ timers' = [timers EXCEPT ![i].left = timers[i].delay]
    /\ effects' = <<>>
    /\ UNCHANGED <<pc, config, formState>>

----------------------------------------------------------------------------
\* The handlers of the settings forms (lines 199-239) and the refresh button

\* !isNaN(newThreshold) && newThreshold > 0 (line 209)
ThresholdAccepted(n) == ~isNaN(n) /\ NumGt(n, Zero)

\* !isNaN(newInterval) && newInterval > 0 (line 228)
IntervalAccepted(n) == ~isNaN(n) /\ NumGt(n, Zero)

\* setThreshold(newThreshold) called before the test instead of inside it.
ThresholdSetBeforeTest(cur, parsed) == parsed

\* The threshold and the interval in force after a rejected submission: the
\* else branches (lines 213-215, 232-234) call no setter of the configuration.
ThresholdAfterReject(cur, parsed) == cur
IntervalAfterReject(cur, parsed) == cur

\* handleThresholdChange: the user edits the threshold field.
handleThresholdChange(text) ==
    /\ pc = "mounted"
    /\ inputThreshold' = text
    /\ thresholdError' = IF Truthy(thresholdError) THEN None ELSE thresholdError
    /\ effects' = <<>>
    /\ UNCHANGED <<pc, reactState, config, inputCheckInterval, intervalError,
                   timers, inflight>>

\* handleSetThreshold: the threshold form is submitted.
handleSetThreshold ==
    /\ pc = "mounted"
    /\ LET newThreshold == parseFloat(inputThreshold)
       IN  IF ThresholdAccepted(newThreshold)
           THEN /\ threshold' = newThreshold
                /\ inputThreshold' = NumberToString(newThreshold)
                /\ thresholdError' = None
                /\ AfterRender(newThreshold, checkInterval, notificationSound)
           ELSE /\ thresholdError' = Some(ThresholdErrorMessage)
                /\ threshold' = ThresholdAfterReject(threshold, newThreshold)
                /\ AfterRender(threshold', checkInterval, notificationSound)
                /\ UNCHANGED inputThreshold
    /\ effects' = <<>>
    /\ UNCHANGED <<pc, checkInterval, notificationSound, inputCheckInterval,
                   intervalError>>

\* handleCheckIntervalChange: the user edits the interval field.
handleCheckIntervalChange(text) ==
    /\ pc = "mounted"
    /\ inputCheckInterval' = text
    /\ intervalError' = IF Truthy(intervalError) THEN None ELSE intervalError
    /\ effects' = <<>>
    /\ UNCHANGED <<pc, reactState, config, inputThreshold, thresholdError,
                   timers, inflight>>

\* handleSetCheckInterval: the interval form is submitted.
handleSetCheckInterval ==
    /\ pc = "mounted"
    /\ LET newInterval == parseInt(inputCheckInterval)
       IN  IF IntervalAccepted(newInterval)
           THEN /\ checkInterval' = newInterval
                /\ inputCheckInterval' = NumberToString(newInterval)
                /\ intervalError' = None
                /\ AfterRender(threshold, newInterval, notificationSound)
           ELSE /\ intervalError' = Some(IntervalErrorMessage)
                /\ checkInterval' = IntervalAfterReject(checkInterval, newInterval)
                /\ AfterRender(threshold, checkInterval', notificationSound)
                /\ UNCHANGED inputCheckInterval
    /\ effects' = <<>>
    /\ UNCHANGED <<pc, threshold, notificationSound, inputThreshold, thresholdError>>

\* handleSoundChange: the user picks another option of the sound select.
handleSoundChange(value) ==
    /\ pc = "mounted"
    /\ notificationSound' = value
    /\ AfterRender(threshold, checkInterval, value)
    /\ effects' = <<>>
    /\ UNCHANGED <<pc, threshold, checkInterval, formState>>

\* The refresh button, <button onClick={fetchRate} disabled={isLoading}>.
RefreshEnabled(loading) == ~loading

RefreshClick ==
    /\ pc = "mounted"
    /\ RefreshEnabled(isLoading)
    /\ FetchRateCall(Closure(threshold, notificationSound))
    /\ effects' = <<>>
    /\ UNCHANGED <<pc, config, formState, timers>>

----------------------------------------------------------------------------
\* The component

Init ==
    /\ pc = "constructed"
    /\ rate = JSNull
    /\ lastChecked = None
    /\ error = None
    /\ isLoading = TRUE
    /\ threshold = InitialThreshold
    /\ inputThreshold = InitialThresholdText
    /\ thresholdError = None
    /\ checkInterval = InitialCheckInterval
    /\ inputCheckInterval = InitialCheckIntervalText
    /\ intervalError = None
    /\ notificationSound = SOUNDS.Default
    /\ timers = <<>>
    /\ inflight = EmptyBag
    /\ effects = <<>>

\* A pending call settles. The environment supplies the response and, where
\* the code reads them, Notification.permission (line 169, read only when
\* newRate > threshold), the fate of audio.play() (line 176) and the clock
\* (line 167).
Settle ==
    \E cl \in BagToSet(inflight), resp \in Responses :
      \E perm \in (IF ReadsPermission(cl, resp) THEN Permissions ELSE {"unread"}) :
        \E playOk \in (IF Plays(cl, resp, perm) THEN BOOLEAN ELSE {TRUE}),
           d \in (IF Stores(resp) THEN Dates ELSE {0}) :
            FetchRateSettle(cl, resp, perm, playOk, d)

Tick == \E i \in 1..Len(timers) : TimerTick(i)

EditThreshold == \E text \in ThresholdTexts : handleThresholdChange(text)

EditCheckInterval == \E text \in IntervalTexts : handleCheckIntervalChange(text)

SelectSound == \E value \in SoundChoices : handleSoundChange(value)

\* The steps of the mounted component.
Next ==
    \/ Mount
    \/ AdvanceTime
    \/ Tick
    \/ Settle
    \/ RefreshClick
    \/ EditThreshold
    \/ handleSetThreshold
    \/ EditCheckInterval
    \/ handleSetCheckInterval
    \/ SelectSound

Spec == Init /\ [][Next]_vars

\* The browser runs a due timer callback, and time passes while none is due.
\* Nothing is assumed of the user or of the network.
FairSpec == Spec /\ WF_vars(AdvanceTime) /\ WF_vars(Tick)

\* The component with its teardown.
LifecycleNext == Next \/ Unmount

LifecycleSpec == Init /\ [][LifecycleNext]_vars

\* The forms alone: the component is mounted, the user types any of the
\* validation texts into the fields and submits them.
TypeThreshold == \E text \in ValidationTexts : handleThresholdChange(text)

TypeCheckInterval == \E text \in ValidationTexts : handleCheckIntervalChange(text)

ValidationNext ==
    \/ Mount
    \/ TypeThreshold
    \/ handleSetThreshold
    \/ TypeCheckInterval
    \/ handleSetCheckInterval

ValidationSpec == Init /\ [][ValidationNext]_vars

\* The component with the threshold and the interval left as they are: the
\* user picks sounds, back and forth, and clicks the refresh button.
PickSound == \E value \in SoundOptions : handleSoundChange(value)

SoundNext ==
    \/ Mount
    \/ AdvanceTime
    \/ Tick
    \/ Settle
    \/ RefreshClick
    \/ PickSound

SoundSpec == Init /\ [][SoundNext]_vars

----------------------------------------------------------------------------
\* Vocabulary of the properties

Mounted == pc = "mounted"

\* This step settles a pending call.
Settles == InFlight' < InFlight

\* The closures of the calls this step takes out of flight.
Settled == BagToSet(inflight (-) inflight')

\* This step settles a call made under closure cl, on response resp, with the
\* browser's permission being perm (read or not). The first two conjuncts
\* follow from the third; they spare TLC the evaluation of the whole handler
\* on the steps of other responses.
SettlesWith(cl, resp, perm) ==
    /\ (Mounted /\ Stores(resp)) => rate' = resp.body.MYR
    /\ (Mounted /\ ~Stores(resp)) => (rate' = rate /\ error' # None)
    /\ \E playOk \in BOOLEAN, d \in Dates : FetchRateSettle(cl, resp, perm, playOk, d)


Notifications(eff) == {i \in 1..Len(eff) : eff[i].e = "notify"}
Playbacks(eff) == {i \in 1..Len(eff) : eff[i].e = "play"}

\* r > t for a numeric rate r and a threshold t, on the values themselves.
StrictlyAbove(r, t) ==
    /\ r.t = "number" /\ r.n.k = "num"
    /\ \/ t.k = "num" /\ r.n.v > t.v
       \/ t.k = "inf" /\ t.v < 0

FetchFailed(resp) == resp \in {NetworkFailure, Http500, InvalidJson, NoRates}

----------------------------------------------------------------------------
\* C1: "in every reachable state at most one fetch is in flight, whatever the
\* interleaving of timer ticks, manual refresh and reconfigurations". The
\* statement of the claim; the component violates it (a re-run of the effect
\* and a tick both call fetchRate while a call is pending).
C1_AtMostOneFetchInFlight == InFlight <= 1

\* C2: whenever a check settles with a numeric rate r under the threshold t
\* it was started with and the permission p, a notification is issued iff
\* r > t strictly and p is "granted"; with p not granted nothing is issued,
\* neither a notification nor a playback.
C2_AlertIffAboveAndGranted ==
    [][Settles =>
          \A cl \in Settled, resp \in WellFormed, perm \in Permissions :
             SettlesWith(cl, resp, perm) =>
                LET r == resp.body.MYR
                    granted == perm = "granted"
                IN  /\ (Notifications(effects') # {}) <=> (StrictlyAbove(r, cl.thr) /\ granted)
                    /\ ~granted => effects' = <<>>]_vars

\* C2, witness: a check has just settled with a notification issued.
C2_Witness == Notifications(effects) # {}

\* C3: "status Error implies an error is recorded, and status Monitoring
\* implies a numeric sample is recorded". The statement of the claim; the
\* component violates its second half when a response lacks rates.MYR.
C3_StatusHasItsRecord ==
    /\ status = "Error" => error # None
    /\ status = "Monitoring" => (rate.t = "number" /\ lastChecked # None)

\* C4: "the status is Checking exactly while a fetch is in flight; it is never
\* Monitoring or Error while some fetch is pending". The statement of the
\* claim; with two calls pending the first to settle clears isLoading.
C4_CheckingExactlyWhileInFlight ==
    Mounted => ((status = "Checking...") <=> (InFlight > 0))

\* C5: "the alert decision of a check that was in flight when the threshold
\* was reconfigured uses the new threshold". The statement of the claim: a
\* settling check alerts iff its rate is above the threshold now configured.
C5_DecisionUsesCurrentThreshold ==
    [][Settles =>
          \A cl \in Settled, resp \in WellFormed, perm \in Permissions :
             SettlesWith(cl, resp, perm) =>
                ((Notifications(effects') # {})
                   <=> (StrictlyAbove(resp.body.MYR, threshold) /\ perm = "granted"))]_vars

\* C6: "the timer is armed only when a check completes, never while a check
\* is in flight, so a tick never fires while the previous check is pending".
\* The statement of the claim.
C6_NoTickWhilePending ==
    /\ [][Tick => InFlight = 0]_vars
    /\ [](timers # <<>> => InFlight = 0)


\* C7: when a fetch fails (the request is rejected, the status is not a
\* success, the body does not parse or holds no rates) the status becomes
\* Error with the error recorded, the step issues no notification and no
\* playback and leaves the armed timer as it is; and from status Error a new
\* check is eventually started although neither the user nor the network is
\* assumed to do anything: the timer starts it.
C7_FailureKeepsPolling ==
    /\ [][Settles =>
            \A cl \in Settled, resp \in Responses :
               (FetchFailed(resp) /\ SettlesWith(cl, resp, "unread")) =>
                  /\ status' = "Error"
                  /\ error' # None
                  /\ effects' = <<>>
                  /\ timers' = timers /\ Len(timers') = 1]_vars
    /\ (status = "Error") ~> (status = "Checking...")

\* C7, witness: a failed check has left the status Error with the timer armed.
C7_Witness == status = "Error" /\ rate = JSNull /\ Len(timers) = 1

\* C8: "every response whose body is not of the shape {rates: {MYR: number}}
\* is reported as an error: the status becomes Error, no sample is stored, no
\* alert is issued". The statement of the claim; a rates object without MYR,
\* or with a string for MYR, is stored as the sample.
C8_MalformedIsError ==
    [][Settles =>
          \A cl \in Settled, resp \in Malformed, perm \in Permissions \cup {"unread"} :
             SettlesWith(cl, resp, perm) =>
                /\ status' = "Error"
                /\ rate' = rate /\ lastChecked' = lastChecked
                /\ effects' = <<>>]_vars

\* A submission the handler accepted / rejected in this step.
AcceptedThreshold == thresholdError' = None /\ handleSetThreshold
AcceptedInterval == intervalError' = None /\ handleSetCheckInterval
RejectedThreshold == thresholdError' # None /\ handleSetThreshold
RejectedInterval == intervalError' # None /\ handleSetCheckInterval

\* C9: "a successful reconfiguration of the threshold or of the interval
\* leaves the status unchanged and starts no fetch". The statement of the
\* claim; the effect runs again on the new value and calls fetchRate.
C9_ReconfigurationStartsNothing ==
    [][(AcceptedThreshold \/ AcceptedInterval) =>
          (status' = status /\ inflight' = inflight)]_vars

\* C10: a submission that fails validation records the validation message of
\* its form and nothing else: the configuration, the armed timer, the pending
\* calls, the status and the sample, and the texts of the fields stay as
\* they are.
C10_RejectionChangesNothing ==
    [][(RejectedThreshold \/ RejectedInterval) =>
          /\ UNCHANGED <<config, timers, inflight, reactState,
                         inputThreshold, inputCheckInterval>>
          /\ status' = status
          /\ effects' = <<>>
          /\ RejectedThreshold =>
                (thresholdError' = Some(ThresholdErrorMessage) /\ UNCHANGED intervalError)
          /\ RejectedInterval =>
                (intervalError' = Some(IntervalErrorMessage) /\ UNCHANGED thresholdError)]_vars

\* C10, witness: both forms show their validation message while a check is
\* pending and the timer is armed.
C10_Witness ==
    /\ thresholdError = Some(ThresholdErrorMessage)
    /\ intervalError = Some(IntervalErrorMessage)
    /\ InFlight > 0 /\ timers # <<>>

\* The number a text denotes: the whole text is a numeral.
Denoted(text) == StringToNumber(text)
FinitePositive(x) == x.k = "num" /\ x.v > 0
PositiveInteger(x) == FinitePositive(x) /\ x.v % Scale = 0

\* C11: "validation accepts a threshold text only if it denotes a finite
\* number greater than 0, and an interval text only if it denotes an integer
\* greater than 0". The statement of the claim; parseFloat and parseInt read
\* a prefix of the text, and Infinity passes !isNaN(x) && x > 0.
C11_ValidationRules ==
    [][/\ AcceptedThreshold => FinitePositive(Denoted(inputThreshold))
       /\ AcceptedInterval => PositiveInteger(Denoted(inputCheckInterval))]_vars

\* C12: "a manual immediate-check request made while any fetch is in flight
\* starts no additional fetch, also when the loading flag has been cleared by
\* one fetch while another is still pending". The statement of the claim:
\* every click of the refresh button that starts a fetch finds none pending.
C12_RefreshCoalesced == [][RefreshClick => InFlight = 0]_vars

\* C13: in every reachable state at most one timer is armed, and it is the
\* one armed for the configuration in force: a reconfiguration of the
\* interval, the threshold or the sound cancels the timer armed before it
\* arms its own, with or without a check in flight.
C13_AtMostOneTimer ==
    /\ Len(timers) <= 1
    /\ \A i \in 1..Len(timers) :
          /\ timers[i].delay = IntervalMs(checkInterval)
          /\ timers[i].cl = Closure(threshold, notificationSound)

\* C13, witness: the interval, the threshold and the sound have all been
\* reconfigured, two checks are in flight and one timer is armed.
C13_Witness ==
    /\ checkInterval # InitialCheckInterval
    /\ threshold # InitialThreshold
    /\ notificationSound # SOUNDS.Default
    /\ InFlight = 2
    /\ Len(timers) = 1

\* C14: "when the interval is reconfigured while a check is in flight, the
\* in-flight check completes normally and publishes its result, the
\* reconfiguration itself starts no new check, and the next tick fires one
\* new interval after that check's completion, not one old interval". The
\* statement of the claim: an accepted interval leaves the pending calls as
\* they are; a pending call that then settles on a well-formed response
\* publishes the rate; and, the interval having been reconfigured, when the
\* last pending call settles the armed timer has the whole new interval left
\* to run.
C14_IntervalReconfiguredInFlight ==
    /\ [][(InFlight > 0 /\ AcceptedInterval /\ checkInterval' # checkInterval)
             => inflight' = inflight]_vars
    /\ [][(Settles /\ Mounted) =>
             \A cl \in Settled, resp \in WellFormed :
                (\E perm \in Permissions \cup {"unread"}, playOk \in BOOLEAN, d \in Dates :
                    FetchRateSettle(cl, resp, perm, playOk, d))
                   => (rate' = resp.body.MYR /\ lastChecked' # None)]_vars
    /\ [][(Settles /\ InFlight' = 0 /\ checkInterval # InitialCheckInterval) =>
             \A i \in 1..Len(timers') :
                /\ timers'[i].delay = IntervalMs(checkInterval)
                /\ timers'[i].left = timers'[i].delay]_vars

\* The text statusText is declared with (line 37); every branch of the if
\* that follows overwrites it.
Initializing == "Initializing..."

\* C15: "the status starts as Initializing and changes only along
\* Initializing -> Checking -> {Monitoring, Error} -> Checking; it never goes
\* from Monitoring to Error or back without passing through Checking, and
\* never returns to Initializing". The statement of the claim; isLoading
\* starts true, so the first status shown is Checking, and with two calls
\* pending the status moves between Monitoring and Error as each settles.
C15_StatusTransitions ==
    /\ status = Initializing
    /\ [][status' # status =>
             \/ status = Initializing /\ status' = "Checking..."
             \/ status = "Checking..." /\ status' \in {"Monitoring", "Error"}
             \/ status \in {"Monitoring", "Error"} /\ status' = "Checking..."]_vars

\* C16: whenever a check issues an alert, exactly one notification is shown;
\* if the check carries a sound (the one selected when it was started), one
\* playback of that sound is requested and the notification is marked
\* silent, whether the playback succeeds or fails; if it carries the default
\* option (no sound), no playback is requested and the notification is not
\* marked silent.
C16_SoundAndNotification ==
    [][Settles =>
          \A cl \in Settled, resp \in WellFormed :
             (effects' # <<>> /\ SettlesWith(cl, resp, "granted")) =>
                LET n == Notifications(effects')
                    p == Playbacks(effects')
                IN  /\ Cardinality(n) = 1
                    /\ cl.snd # "" =>
                          /\ Cardinality(p) = 1
                          /\ \A i \in p : effects'[i].url = cl.snd
                          /\ \A i \in n : effects'[i].silent
                    /\ cl.snd = "" =>
                          /\ p = {}
                          /\ \A i \in n : ~effects'[i].silent]_vars

\* C16, witness: a check has just alerted with a playback that failed and a
\* silent notification.
C16_Witness ==
    /\ \E i \in Playbacks(effects) : ~effects[i].ok
    /\ \E i \in Notifications(effects) : effects[i].silent

Stopped == pc = "unmounted"

\* C17: after the teardown of the polling effect no timer is armed, and
\* running the cleanup again changes nothing; from then on no step starts a
\* check or arms a timer; and a check that was in flight at the teardown can
\* still settle.
C17_StopCancelsPolling ==
    /\ [](Stopped => (timers = <<>> /\ clearInterval(timers) = timers))
    /\ [][Stopped => (Stopped' /\ InFlight' <= InFlight /\ timers' = timers)]_vars
    /\ []((Stopped /\ InFlight > 0) => ENABLED Settle)

\* C17, witness: the component was torn down with a check in flight, and the
\* check has settled since (isLoading was left as the teardown found it).
C17_Witness == Stopped /\ InFlight = 0 /\ isLoading

\* The call made under cl ends in failure on resp: its try block throws.
EndsInFailure(cl, resp, perm) == Outcome(cl, resp, perm, TRUE).thrown # None

\* C18: "a check that ends in failure leaves the last recorded sample (rate
\* and last-checked timestamp) unchanged: the sample is replaced only by a
\* check that ends in success". The statement of the claim; a rate that is
\* stored and then makes the alert branch throw is a failure with a new
\* sample.
C18_FailureKeepsSample ==
    [][(Settles /\ Mounted) =>
          \A cl \in Settled, resp \in Responses, perm \in Permissions \cup {"unread"} :
             (EndsInFailure(cl, resp, perm) /\ SettlesWith(cl, resp, perm)) =>
                (rate' = rate /\ lastChecked' = lastChecked)]_vars

\* C19: a change of the selected sound, the threshold and the interval being
\* as they were, leaves exactly one timer armed, a fresh one with the whole
\* interval to run and the new sound in its callback (the timer pending
\* before is cancelled, however far it had run), starts one check carrying
\* the new sound at once, and shows Checking; this at every such change.
C19_SoundChangeRestartsPolling ==
    [][notificationSound' # notificationSound =>
          LET cl == Closure(threshold, notificationSound')
          IN  /\ threshold' = threshold /\ checkInterval' = checkInterval
              /\ timers' = <<Timer(cl, IntervalMs(checkInterval))>>
              /\ inflight' = inflight (+) SetToBag({cl})
              /\ status' = "Checking..."]_vars

\* C19, witness: the sound was changed twice in a row, each change starting
\* a check that is still pending, and the timer armed is that of the last.
C19_Witness ==
    /\ \E a, b \in BagToSet(inflight) : a.snd = ChimeUrl /\ b.snd = AlertUrl
    /\ Len(timers) = 1
    /\ timers[1].cl.snd = notificationSound
    /\ timers[1].left = timers[1].delay

====
